---- MODULE Spec2Model ----
(***************************************************************************)
(* DuckyScript-to-HID compiler of sysfract.py: parse_key and               *)
(* compile_duckyscript.  A text is a sequence of one-character strings,    *)
(* the compiled stream a sequence of bytes.  compile_duckyscript is the    *)
(* state machine of its for-loop: one action per way a line is handled.    *)
(***************************************************************************)
EXTENDS Integers, Sequences, FiniteSets, TLC

VARIABLES text, lines, line_nr, binary, stdout, pc

vars == <<text, lines, line_nr, binary, stdout, pc>>

(***************************************************************************)
(* Bounds of the checked inputs.                                           *)
(***************************************************************************)
MaxLines == 3
MaxMs == 26
MaxTokens == 3

(***************************************************************************)
(* Characters and the str methods the compiler calls.                      *)
(***************************************************************************)
LowerLetters == <<"a", "b", "c", "d", "e", "f", "g", "h", "i", "j", "k", "l", "m", "n", "o", "p", "q", "r", "s", "t", "u", "v", "w", "x", "y", "z">>
UpperLetters == <<"A", "B", "C", "D", "E", "F", "G", "H", "I", "J", "K", "L", "M", "N", "O", "P", "Q", "R", "S", "T", "U", "V", "W", "X", "Y", "Z">>
Digits == <<"0", "1", "2", "3", "4", "5", "6", "7", "8", "9">>
Whitespace == {" ", "\t", "\n", "\r"}

Range(s) == {s[i] : i \in DOMAIN s}

LowerOf == [c \in Range(UpperLetters) |-> LowerLetters[CHOOSE i \in 1..26 : UpperLetters[i] = c]]
UpperOf == [c \in Range(LowerLetters) |-> UpperLetters[CHOOSE i \in 1..26 : LowerLetters[i] = c]]

isupper(c) == c \in DOMAIN LowerOf

char_lower(c) == IF c \in DOMAIN LowerOf THEN LowerOf[c] ELSE c
char_upper(c) == IF c \in DOMAIN UpperOf THEN UpperOf[c] ELSE c

lower(s) == [i \in 1..Len(s) |-> char_lower(s[i])]
upper(s) == [i \in 1..Len(s) |-> char_upper(s[i])]

RECURSIVE lstrip(_)
lstrip(s) ==
    IF s = <<>> THEN s
    ELSE IF Head(s) \in Whitespace THEN lstrip(Tail(s)) ELSE s

RECURSIVE rstrip(_)
rstrip(s) ==
    IF s = <<>> THEN s
    ELSE IF s[Len(s)] \in Whitespace THEN rstrip(SubSeq(s, 1, Len(s) - 1)) ELSE s

strip(s) == rstrip(lstrip(s))

startswith(s, p) == Len(p) <= Len(s) /\ SubSeq(s, 1, Len(p)) = p

\* index of the first character of s that is in set cs, 0 when there is none
FirstIn(s, cs) ==
    IF \E i \in DOMAIN s : s[i] \in cs
    THEN CHOOSE i \in DOMAIN s : s[i] \in cs /\ \A j \in 1..(i - 1) : s[j] \notin cs
    ELSE 0

\* str.split(sep) for a one-character separator
RECURSIVE split_sep(_, _)
split_sep(s, sep) ==
    LET i == FirstIn(s, {sep})
    IN  IF i = 0 THEN <<s>>
        ELSE <<SubSeq(s, 1, i - 1)>> \o split_sep(SubSeq(s, i + 1, Len(s)), sep)

\* str.split(maxsplit=1): whitespace-separated, at most one split
split_max1(s) ==
    LET t == lstrip(s)
        i == FirstIn(t, Whitespace)
        rest == IF i = 0 THEN <<>> ELSE lstrip(SubSeq(t, i, Len(t)))
    IN  IF t = <<>> THEN <<>>
        ELSE IF rest = <<>> THEN <<IF i = 0 THEN t ELSE SubSeq(t, 1, i - 1)>>
        ELSE <<SubSeq(t, 1, i - 1), rest>>

\* str.splitlines(): \n, \r and \r\n end a line; no empty last line
RECURSIVE splitlines(_)
splitlines(t) ==
    LET i == FirstIn(t, {"\n", "\r"})
        j == IF t[i] = "\r" /\ i < Len(t) /\ t[i + 1] = "\n" THEN i + 1 ELSE i
    IN  IF t = <<>> THEN <<>>
        ELSE IF i = 0 THEN <<t>>
        ELSE <<SubSeq(t, 1, i - 1)>> \o splitlines(SubSeq(t, j + 1, Len(t)))

RECURSIVE DigitsValue(_, _)
DigitsValue(s, acc) ==
    IF s = <<>> THEN acc
    ELSE IF Head(s) = "_" THEN DigitsValue(Tail(s), acc)
    ELSE DigitsValue(Tail(s), 10 * acc + ((CHOOSE i \in 1..10 : Digits[i] = Head(s)) - 1))

\* int(s): optional surrounding whitespace, optional sign, digits that single
\* underscores may separate; anything else raises ValueError
int_body(s) ==
    LET t == strip(s)
    IN  IF t # <<>> /\ Head(t) \in {"+", "-"} THEN Tail(t) ELSE t

int_ok(s) ==
    LET b == int_body(s)
    IN  /\ b # <<>>
        /\ \A i \in DOMAIN b : b[i] \in Range(Digits) \cup {"_"}
        /\ b[1] # "_" /\ b[Len(b)] # "_"
        /\ \A i \in 1..(Len(b) - 1) : ~(b[i] = "_" /\ b[i + 1] = "_")

int_value(s) ==
    LET t == strip(s)
        v == DigitsValue(int_body(s), 0)
    IN  IF Head(t) = "-" THEN 0 - v ELSE v

RECURSIVE BitOr(_, _)
BitOr(a, b) ==
    IF a = 0 THEN b
    ELSE IF b = 0 THEN a
    ELSE (IF a % 2 = 1 \/ b % 2 = 1 THEN 1 ELSE 0) + 2 * BitOr(a \div 2, b \div 2)

Max(a, b) == IF a >= b THEN a ELSE b

Zeros(n) == [i \in 1..n |-> 0]

(***************************************************************************)
(* The symbol tables.  The character ` is written "grave": a TLA+ string    *)
(* cannot hold it.                                                         *)
(***************************************************************************)
KEYMAP ==
    <<"a">> :> 4 @@ <<"b">> :> 5 @@ <<"c">> :> 6 @@ <<"d">> :> 7 @@ <<"e">> :> 8
    @@ <<"f">> :> 9 @@ <<"g">> :> 10 @@ <<"h">> :> 11 @@ <<"i">> :> 12 @@ <<"j">> :> 13
    @@ <<"k">> :> 14 @@ <<"l">> :> 15 @@ <<"m">> :> 16 @@ <<"n">> :> 17 @@ <<"o">> :> 18
    @@ <<"p">> :> 19 @@ <<"q">> :> 20 @@ <<"r">> :> 21 @@ <<"s">> :> 22 @@ <<"t">> :> 23
    @@ <<"u">> :> 24 @@ <<"v">> :> 25 @@ <<"w">> :> 26 @@ <<"x">> :> 27 @@ <<"y">> :> 28
    @@ <<"z">> :> 29 @@ <<"1">> :> 30 @@ <<"2">> :> 31 @@ <<"3">> :> 32 @@ <<"4">> :> 33
    @@ <<"5">> :> 34 @@ <<"6">> :> 35 @@ <<"7">> :> 36 @@ <<"8">> :> 37 @@ <<"9">> :> 38
    @@ <<"0">> :> 39 @@ <<"e", "n", "t", "e", "r">> :> 40 @@ <<"e", "s", "c">> :> 41
    @@ <<"b", "a", "c", "k", "s", "p", "a", "c", "e">> :> 42 @@ <<"t", "a", "b">> :> 43
    @@ <<"s", "p", "a", "c", "e">> :> 44 @@ <<"-">> :> 45
    @@ <<"e", "q", "u", "a", "l", "s">> :> 46 @@ <<"[">> :> 47 @@ <<"]">> :> 48
    @@ <<"\\">> :> 49 @@ <<";">> :> 51 @@ <<"'">> :> 52 @@ <<"grave">> :> 53
    @@ <<",">> :> 54 @@ <<".">> :> 55 @@ <<"/">> :> 56 @@ <<"f", "1">> :> 58
    @@ <<"f", "2">> :> 59 @@ <<"f", "3">> :> 60 @@ <<"f", "4">> :> 61
    @@ <<"f", "5">> :> 62 @@ <<"f", "6">> :> 63 @@ <<"f", "7">> :> 64
    @@ <<"f", "8">> :> 65 @@ <<"f", "9">> :> 66 @@ <<"f", "1", "0">> :> 67
    @@ <<"f", "1", "1">> :> 68 @@ <<"f", "1", "2">> :> 69
    @@ <<"r", "i", "g", "h", "t">> :> 79 @@ <<"l", "e", "f", "t">> :> 80
    @@ <<"d", "o", "w", "n">> :> 81 @@ <<"u", "p">> :> 82

MODIFIERS ==
    <<"c", "t", "r", "l">> :> 1 @@ <<"s", "h", "i", "f", "t">> :> 2
    @@ <<"a", "l", "t">> :> 4 @@ <<"g", "u", "i">> :> 8 @@ <<"w", "i", "n">> :> 8
    @@ <<"w", "i", "n", "d", "o", "w", "s">> :> 8

SHIFTED == Range(<<"!", "@", "#", "$", "%", "^", "&", "*", "(", ")", "_", "+", "{", "}", "|", ":", "\"", "<", ">", "?", "~">>)

(***************************************************************************)
(* parse_key                                                               *)
(***************************************************************************)
\* mutant of parse_loop: a key already in the list is not appended again
RECURSIVE parse_loop_dedup(_, _, _)
parse_loop_dedup(parts, mod, keys) ==
    IF parts = <<>> THEN <<mod, keys>>
    ELSE LET p == Head(parts)
         IN  IF p \in DOMAIN MODIFIERS
             THEN parse_loop_dedup(Tail(parts), BitOr(mod, MODIFIERS[p]), keys)
             ELSE IF p \in DOMAIN KEYMAP /\ KEYMAP[p] \notin Range(keys)
             THEN parse_loop_dedup(Tail(parts), mod, Append(keys, KEYMAP[p]))
             ELSE parse_loop_dedup(Tail(parts), mod, keys)

RECURSIVE parse_loop(_, _, _)
parse_loop(parts, mod, keys) ==
    IF parts = <<>> THEN <<mod, keys>>
    ELSE LET p == Head(parts)
         IN  IF p \in DOMAIN MODIFIERS
             THEN parse_loop(Tail(parts), BitOr(mod, MODIFIERS[p]), keys)
             ELSE IF p \in DOMAIN KEYMAP
             THEN parse_loop(Tail(parts), mod, Append(keys, KEYMAP[p]))
             ELSE parse_loop(Tail(parts), mod, keys)

key_parts(key_str) ==
    LET raw == split_sep(lower(key_str), "-")
    IN  [i \in 1..Len(raw) |-> strip(raw[i])]

parse_key(key_str) == parse_loop(key_parts(key_str), 0, <<>>)

(***************************************************************************)
(* compile_duckyscript: what one line contributes                          *)
(***************************************************************************)
is_skipped(line) ==
    \/ line = <<>>
    \/ startswith(line, <<"R", "E", "M">>)
    \/ startswith(line, <<"/", "/">>)
    \/ startswith(line, <<"#">>)

cmd_of(line) == upper(split_max1(line)[1])

arg_of(line) ==
    LET parts == split_max1(line)
    IN  IF Len(parts) > 1 THEN strip(parts[2]) ELSE <<>>

\* mutant of reports: the +10 bias is lost
reports_no_bias(ms) == Max(1, ms \div 12)

reports(ms) == Max(1, (ms + 10) \div 12)

delay_bytes(ms) == Zeros(8 * reports(ms))

\* mutants of release: one byte short; a single all-zero report
release_short == Zeros(15)
release_one == Zeros(8)

release == Zeros(16)

\* mutant of string_char: an uppercase letter is sent without shift
string_char_noshift(char) ==
    LET c == char_lower(char)
        key0 == IF <<c>> \in DOMAIN KEYMAP THEN KEYMAP[<<c>>] ELSE 0
        mod0 == IF char \in SHIFTED THEN MODIFIERS[<<"s", "h", "i", "f", "t">>] ELSE 0
        key == IF char = " " THEN KEYMAP[<<"s", "p", "a", "c", "e">>] ELSE key0
    IN  IF key # 0
        THEN <<mod0, 0, key, 0, 0, 0, 0, 0>> \o Zeros(16)
        ELSE <<>>

\* mutant of string_char: ! is typed as shift + 1
string_char_bang(char) ==
    LET c == IF char = "!" THEN "1" ELSE char_lower(char)
        key0 == IF <<c>> \in DOMAIN KEYMAP THEN KEYMAP[<<c>>] ELSE 0
        mod0 == IF isupper(char) \/ char \in SHIFTED THEN MODIFIERS[<<"s", "h", "i", "f", "t">>] ELSE 0
        key == IF char = " " THEN KEYMAP[<<"s", "p", "a", "c", "e">>] ELSE key0
    IN  IF key # 0
        THEN <<mod0, 0, key, 0, 0, 0, 0, 0>> \o Zeros(16)
        ELSE <<>>

\* the bytes one character of a STRING argument appends
string_char(char) ==
    LET c == char_lower(char)
        key0 == IF <<c>> \in DOMAIN KEYMAP THEN KEYMAP[<<c>>] ELSE 0
        mod0 == IF isupper(char) \/ char \in SHIFTED THEN MODIFIERS[<<"s", "h", "i", "f", "t">>] ELSE 0
        key1 == IF char = " " THEN KEYMAP[<<"s", "p", "a", "c", "e">>] ELSE key0
        key == IF char = "\n" THEN KEYMAP[<<"e", "n", "t", "e", "r">>] ELSE key1
        mod == IF char = "\n" THEN 0 ELSE mod0
    IN  IF key # 0
        THEN <<mod, 0, key, 0, 0, 0, 0, 0>> \o release
        ELSE <<>>

RECURSIVE string_bytes(_)
string_bytes(arg) ==
    IF arg = <<>> THEN <<>>
    ELSE string_char(Head(arg)) \o string_bytes(Tail(arg))

NAMED == {<<"E", "N", "T", "E", "R">>, <<"T", "A", "B">>, <<"E", "S", "C">>, <<"B", "A", "C", "K", "S", "P", "A", "C", "E">>}

named_bytes(cmd) ==
    LET key == IF lower(cmd) \in DOMAIN KEYMAP THEN KEYMAP[lower(cmd)] ELSE 0
    IN  IF key # 0
        THEN <<0, 0, key, 0, 0, 0, 0, 0>> \o release
        ELSE <<>>

\* mutant of combo_packet: the key list is not cut to six
combo_packet_all(mod, keys) ==
    <<mod, 0>> \o [i \in 1..Max(6, Len(keys)) |-> IF i <= Len(keys) THEN keys[i] ELSE 0]

\* keys[:6] written into packet[2..7]
combo_packet(mod, keys) ==
    <<mod, 0>> \o [i \in 1..6 |-> IF i <= Len(keys) THEN keys[i] ELSE 0]

combo_bytes(cmd, arg) ==
    LET r1 == parse_key(cmd)
        r2 == IF arg # <<>> THEN parse_key(arg) ELSE <<0, <<>>>>
        mod == BitOr(r1[1], r2[1])
        keys == r1[2] \o r2[2]
    IN  IF keys # <<>>
        THEN combo_packet(mod, keys) \o release
        ELSE <<>>

(***************************************************************************)
(* The scripts that are compiled.                                          *)
(***************************************************************************)
RECURSIVE Dec(_)
Dec(n) == IF n < 10 THEN <<Digits[n + 1]>> ELSE Dec(n \div 10) \o <<Digits[(n % 10) + 1]>>

Lines ==
    { <<>>, <<"R", "E", "M", " ", "x">>, <<"r", "e", "m", " ", "a">>, <<"D", "E", "L", "A", "Y", " ", "1", "4">>, <<"D", "E", "L", "A", "Y", " ", "a", "b", "c">>, <<"D", "E", "L", "A", "Y", " ", "-", "5">>,
      <<"S", "T", "R", "I", "N", "G", " ", "A", "b">>, <<"S", "T", "R", "I", "N", "G", " ", "a", " ", "!">>, <<"E", "N", "T", "E", "R">>, <<"G", "U", "I", " ", "r">> }

Leads == {<<>>, <<" ">>}
Gaps == {<<" ">>, <<"\t", " ">>}

Words ==
    { <<"D", "E", "L", "A", "Y">>, <<"d", "e", "l", "a", "y">>, <<"D", "e", "l", "a", "y">>, <<"S", "T", "R", "I", "N", "G">>, <<"s", "t", "r", "i", "n", "g">>,
      <<"E", "N", "T", "E", "R">>, <<"e", "n", "t", "e", "r">>, <<"T", "A", "B">>, <<"E", "S", "C">>, <<"B", "A", "C", "K", "S", "P", "A", "C", "E">>,
      <<"R", "E", "M">>, <<"r", "e", "m">>, <<"R", "e", "m">>, <<"/", "/">>, <<"#">>, <<"R", "E", "M", "a">>,
      <<"G", "U", "I">>, <<"g", "u", "i">>, <<"W", "I", "N", "D", "O", "W", "S">>, <<"C", "T", "R", "L", "-", "A", "L", "T">>, <<"S", "H", "I", "F", "T">>, <<"c", "t", "r", "l", "-", "s", "h", "i", "f", "t", "-", "e", "s", "c">>,
      <<"a", "-", "b", "-", "c", "-", "d", "-", "e", "-", "f", "-", "g">>, <<"a", "-", "a">>, <<"f", "5">>, <<"f", "o", "o">>, <<"x", "-", "y", "-", "x">> }

Args ==
    { Dec(ms) : ms \in 0..MaxMs } \cup
    { <<>>, <<"-", "5">>, <<"-", "1", "5">>, <<"a", "b", "c">>, <<"+", "3">>, <<"1", "_", "0">>, <<"0", "0", "7">>, <<"5", ".", "5">>, <<"1", "_", "_", "0">>,
      <<"r">>, <<"A">>, <<"a", "b">>, <<"a", " ", "b">>, <<"a", "B", " ", "1">>, <<"a", " ", " ", "Z", "9">>, <<"a", " ", "!">>, <<"!">>, <<"H", "i", "!">>,
      <<"(", "a", ")">>, <<"#", " ", "a">>, <<"a", "-", "a">>, <<"d", "e", "l">>, <<"a", "l", "t", "-", "f", "4">>, <<"g", "-", "h", "-", "i", "-", "j">>, <<"s", "h", "i", "f", "t", "-", "a", "-", "c", "t", "r", "l">>,
      <<"r", "-", "z", "z", "-", "g", "u", "i">>, <<"B", "?", "b">>, <<"a", "-", "A">>, <<"~", " ", "a">>, <<"x", "-", "y", " ", "-", "z">>, <<",", ".">>, <<"a", "a">>,
      <<"!", "@", "#", "$", "%", "^", "&", "*", "(", ")", "_", "+", "{", "}", "|", ":", "\"", "<", ">", "?", "~">>, <<"a", "_", "B">>, <<"Q", ":", "q">> }

\* hyphen-separated token strings of up to MaxTokens tokens
Tokens == { <<"c", "t", "r", "l">>, <<"s", "h", "i", "f", "t">>, <<"a">>, <<"B">>, <<"z", "z">> }

TokenSeqs == UNION { [1..n -> Tokens] : n \in 1..MaxTokens }

RECURSIVE Join(_, _)
Join(ls, nl) ==
    IF ls = <<>> THEN <<>>
    ELSE IF Len(ls) = 1 THEN ls[1]
    ELSE ls[1] \o nl \o Join(Tail(ls), nl)

TokenStrings == { Join(toks, <<"-">>) : toks \in TokenSeqs }

BigLines ==
    { lead \o w \o gap \o a : lead \in Leads, w \in Words, gap \in Gaps, a \in Args } \cup
    { w \o <<" ">> \o a : w \in {<<"G", "U", "I">>, <<"b">>, <<"f", "o", "o">>}, a \in TokenStrings }

Scripts == UNION { [1..n -> Lines] : n \in 0..MaxLines }

Texts ==
    { Join(ls, <<"\n">>) : ls \in Scripts } \cup
    { Join(ls, <<"\r", "\n">>) \o <<"\n">> : ls \in [1..2 -> Lines] } \cup
    BigLines

(***************************************************************************)
(* The state machine of compile_duckyscript.                               *)
(***************************************************************************)
Init ==
    /\ text \in Texts
    /\ lines = splitlines(text)
    /\ line_nr = 0
    /\ binary = <<>>
    /\ stdout = <<>>
    /\ pc = "loop"

HasLine == pc = "loop" /\ line_nr < Len(lines)

\* the loop variable after line = line.strip()
line == strip(lines[line_nr + 1])

\* the line is blank or a comment: continue
Continue ==
    /\ HasLine
    /\ is_skipped(line)
    /\ line_nr' = line_nr + 1
    /\ UNCHANGED <<text, lines, binary, stdout, pc>>

Delay ==
    /\ HasLine
    /\ ~is_skipped(line)
    /\ cmd_of(line) = <<"D", "E", "L", "A", "Y">>
    /\ int_ok(arg_of(line))
    /\ line_nr' = line_nr + 1
    /\ binary' = binary \o delay_bytes(int_value(arg_of(line)))
    /\ UNCHANGED <<text, lines, stdout, pc>>

\* mutant of Except: the error ends the compilation
Except_abort ==
    /\ HasLine
    /\ ~is_skipped(line)
    /\ cmd_of(line) = <<"D", "E", "L", "A", "Y">>
    /\ ~int_ok(arg_of(line))
    /\ line_nr' = line_nr + 1
    /\ stdout' = Append(stdout, [nr |-> line_nr + 1, line |-> line])
    /\ pc' = "done"
    /\ UNCHANGED <<text, lines, binary>>

\* int(arg) raises: the except clause prints and the loop goes on
Except ==
    /\ HasLine
    /\ ~is_skipped(line)
    /\ cmd_of(line) = <<"D", "E", "L", "A", "Y">>
    /\ ~int_ok(arg_of(line))
    /\ line_nr' = line_nr + 1
    /\ stdout' = Append(stdout, [nr |-> line_nr + 1, line |-> line])
    /\ UNCHANGED <<text, lines, binary, pc>>

String ==
    /\ HasLine
    /\ ~is_skipped(line)
    /\ cmd_of(line) = <<"S", "T", "R", "I", "N", "G">>
    /\ line_nr' = line_nr + 1
    /\ binary' = binary \o string_bytes(arg_of(line))
    /\ UNCHANGED <<text, lines, stdout, pc>>

NamedKey ==
    /\ HasLine
    /\ ~is_skipped(line)
    /\ cmd_of(line) \in NAMED
    /\ line_nr' = line_nr + 1
    /\ binary' = binary \o named_bytes(cmd_of(line))
    /\ UNCHANGED <<text, lines, stdout, pc>>

KeyCombo ==
    /\ HasLine
    /\ ~is_skipped(line)
    /\ cmd_of(line) \notin {<<"D", "E", "L", "A", "Y">>, <<"S", "T", "R", "I", "N", "G">>} \cup NAMED
    /\ line_nr' = line_nr + 1
    /\ binary' = binary \o combo_bytes(cmd_of(line), arg_of(line))
    /\ UNCHANGED <<text, lines, stdout, pc>>

Return ==
    /\ pc = "loop"
    /\ line_nr = Len(lines)
    /\ pc' = "done"
    /\ UNCHANGED <<text, lines, line_nr, binary, stdout>>

Next == Continue \/ Delay \/ Except \/ String \/ NamedKey \/ KeyCombo \/ Return

Spec == Init /\ [][Next]_vars

TypeOK ==
    /\ line_nr \in 0..Len(lines)
    /\ pc \in {"loop", "done"}
    /\ \A i \in DOMAIN binary : binary[i] \in 0..255

(***************************************************************************)
(* What a one-line script compiles to: the loop body as a function of the  *)
(* line.                                                                   *)
(***************************************************************************)
raises(l) ==
    LET s == strip(l)
    IN  ~is_skipped(s) /\ cmd_of(s) = <<"D", "E", "L", "A", "Y">> /\ ~int_ok(arg_of(s))

alone(l) ==
    LET s == strip(l)
        c == cmd_of(s)
        a == arg_of(s)
    IN  IF is_skipped(s) THEN <<>>
        ELSE IF c = <<"D", "E", "L", "A", "Y">> THEN (IF int_ok(a) THEN delay_bytes(int_value(a)) ELSE <<>>)
        ELSE IF c = <<"S", "T", "R", "I", "N", "G">> THEN string_bytes(a)
        ELSE IF c \in NAMED THEN named_bytes(c)
        ELSE combo_bytes(c, a)

(***************************************************************************)
(* Properties.                                                             *)
(***************************************************************************)
RECURSIVE Flatten(_)
Flatten(ss) == IF ss = <<>> THEN <<>> ELSE Head(ss) \o Flatten(Tail(ss))

NumReports == Len(binary) \div 8
Report(k) == SubSeq(binary, 8 * k - 7, 8 * k)
ZeroReport == <<0, 0, 0, 0, 0, 0, 0, 0>>

\* the line the step at hand compiles
cur == lines[line_nr + 1]

\* a line without the whitespace around it, its first whitespace-delimited
\* word, and what follows that word
Trimmed(l) ==
    LET ix == {i \in DOMAIN l : l[i] \notin Whitespace}
    IN  IF ix = {} THEN <<>>
        ELSE SubSeq(l, CHOOSE i \in ix : \A j \in ix : i <= j,
                       CHOOSE i \in ix : \A j \in ix : i >= j)

WordEnd(l) ==
    LET t == Trimmed(l)
    IN  CHOOSE n \in 0..Len(t) :
            /\ \A i \in 1..n : t[i] \notin Whitespace
            /\ n = Len(t) \/ t[n + 1] \in Whitespace

FirstWord(l) == SubSeq(Trimmed(l), 1, WordEnd(l))

Remainder(l) == Trimmed(SubSeq(Trimmed(l), WordEnd(l) + 1, Len(Trimmed(l))))

BeginsComment(l) ==
    \/ startswith(Trimmed(l), <<"R", "E", "M">>)
    \/ startswith(Trimmed(l), <<"/", "/">>)
    \/ startswith(Trimmed(l), <<"#">>)

\* C1: the returned stream is a whole number of 8-byte reports; in each report
\* byte 1 is 0 and byte 0 has no bit outside bits 0-3.
WellFormedStream ==
    pc = "done" =>
        /\ Len(binary) % 8 = 0
        /\ \A k \in 1..NumReports :
            /\ Report(k)[2] = 0
            /\ Report(k)[1] \in 0..15

WellFormedStream_witness ==
    /\ pc = "done"
    /\ NumReports >= 6
    /\ \E k \in 1..NumReports : Report(k)[1] = 8
    /\ \E k \in 1..NumReports : Report(k)[1] = 2

\* C2: a line DELAY ms, ms >= 0, appends exactly max(1, (ms+10) div 12) all-zero
\* reports and prints nothing; 0, 11 and 12 give one report and 14 gives two.
DelayCount(ms) == IF (ms + 10) \div 12 >= 1 THEN (ms + 10) \div 12 ELSE 1

DelayFrames ==
    [][(HasLine /\ upper(FirstWord(cur)) = <<"D", "E", "L", "A", "Y">>) =>
        \A ms \in {n \in 0..MaxMs : Dec(n) = Remainder(cur)} :
            /\ binary' = binary \o [i \in 1..(8 * DelayCount(ms)) |-> 0]
            /\ stdout' = stdout
            /\ ms \in {0, 11, 12} => Len(binary') = Len(binary) + 8
            /\ ms = 14 => Len(binary') = Len(binary) + 16]_vars

DelayFrames_witness ==
    /\ line_nr = 2
    /\ lines[1] = <<"G", "U", "I", " ", "r">>
    /\ lines[2] = <<"D", "E", "L", "A", "Y", " ", "1", "4">>
    /\ Len(binary) = 24 + 16
    /\ SubSeq(binary, 25, 40) = Zeros(16)

\* C3: compilation never aborts at a failing line: the line adds no bytes and
\* exactly one diagnostic with its 1-based number (blank and comment lines
\* counted), and the stream is the concatenation, in line order, of what each
\* non-failing line compiles to on its own.
NeverAborts ==
    /\ pc = "done" => line_nr = Len(lines)
    /\ binary = Flatten([i \in 1..line_nr |-> IF raises(lines[i]) THEN <<>> ELSE alone(lines[i])])
    /\ [i \in 1..Len(stdout) |-> stdout[i].nr]
         = SelectSeq([i \in 1..line_nr |-> i], LAMBDA i : raises(lines[i]))
    /\ \A i \in 1..line_nr :
         lines[i] = <<"D", "E", "L", "A", "Y", " ", "a", "b", "c">> => Cardinality({j \in DOMAIN stdout : stdout[j].nr = i}) = 1

NeverAborts_witness ==
    /\ pc = "done"
    /\ lines = <<<<"R", "E", "M", " ", "x">>, <<"D", "E", "L", "A", "Y", " ", "a", "b", "c">>, <<"G", "U", "I", " ", "r">>>>
    /\ Len(stdout) = 1
    /\ stdout[1].nr = 2
    /\ binary = <<8, 0, 21, 0, 0, 0, 0, 0>> \o Zeros(16)

\* C9: every non-zero report of the stream is immediately followed by two
\* all-zero reports, so no two non-zero reports are adjacent.
CleanRelease ==
    \A k \in 1..NumReports :
        Report(k) # ZeroReport =>
            /\ k + 2 <= NumReports
            /\ Report(k + 1) = ZeroReport
            /\ Report(k + 2) = ZeroReport

CleanRelease_witness ==
    /\ pc = "done"
    /\ lines = <<<<"S", "T", "R", "I", "N", "G", " ", "A", "b">>, <<"E", "N", "T", "E", "R">>, <<"G", "U", "I", " ", "r">>>>
    /\ NumReports = 12
    /\ \A k \in {1, 4, 7, 10} : Report(k) # ZeroReport

\* C4: a STRING line whose text is letters, digits and internal spaces appends
\* one 24-byte group per character, in order: key slot 0 the code of the
\* lowercased character (space: the space code), the other slots zero, the
\* modifier the shift bit exactly for an uppercase letter, then 16 zero bytes.
PlainText(t) ==
    /\ t # <<>>
    /\ \A i \in DOMAIN t : t[i] \in Range(LowerLetters) \cup Range(UpperLetters) \cup Range(Digits) \cup {" "}
    /\ t[1] # " " /\ t[Len(t)] # " "

Group(c) ==
    << IF c \in Range(UpperLetters) THEN 2 ELSE 0, 0,
       IF c = " " THEN KEYMAP[<<"s", "p", "a", "c", "e">>] ELSE KEYMAP[<<char_lower(c)>>],
       0, 0, 0, 0, 0 >> \o [i \in 1..16 |-> 0]

StringGroups ==
    [][(HasLine /\ upper(FirstWord(cur)) = <<"S", "T", "R", "I", "N", "G">> /\ PlainText(Remainder(cur))) =>
        LET t == Remainder(cur)
        IN  /\ binary' = binary \o Flatten([i \in 1..Len(t) |-> Group(t[i])])
            /\ stdout' = stdout
            /\ t = <<"A">> => binary' = binary \o <<2, 0, 4, 0, 0, 0, 0, 0>> \o Zeros(16)
            /\ t = <<"a", "b">> =>
                 /\ Len(binary') = Len(binary) + 48
                 /\ binary'[Len(binary) + 1] = 0
                 /\ binary'[Len(binary) + 25] = 0]_vars

StringGroups_witness ==
    /\ line_nr = 1
    /\ upper(FirstWord(lines[1])) = <<"S", "T", "R", "I", "N", "G">>
    /\ Remainder(lines[1]) = <<"a", "B", " ", "1">>
    /\ binary = <<0, 0, 4, 0, 0, 0, 0, 0>> \o Zeros(16) \o <<2, 0, 5, 0, 0, 0, 0, 0>> \o Zeros(16)
                \o <<0, 0, 44, 0, 0, 0, 0, 0>> \o Zeros(16) \o <<0, 0, 30, 0, 0, 0, 0, 0>> \o Zeros(16)

\* C5: a generic key-combo line appends, when the keys of the command word
\* followed by those of the remainder are not empty, one report with the two
\* masks ORed and the first six of those keys, then 16 zero bytes; otherwise
\* nothing; never a diagnostic.  GUI r gives the gui bit and the code of r.
GenericLine(l) ==
    /\ Trimmed(l) # <<>>
    /\ ~BeginsComment(l)
    /\ upper(FirstWord(l)) \notin
         {<<"R", "E", "M">>, <<"D", "E", "L", "A", "Y">>, <<"S", "T", "R", "I", "N", "G">>, <<"E", "N", "T", "E", "R">>, <<"T", "A", "B">>, <<"E", "S", "C">>, <<"B", "A", "C", "K", "S", "P", "A", "C", "E">>}

ComboReport ==
    [][(HasLine /\ GenericLine(cur)) =>
        LET r1 == parse_key(FirstWord(cur))
            r2 == parse_key(Remainder(cur))
            keys == r1[2] \o r2[2]
        IN  /\ stdout' = stdout
            /\ keys = <<>> => binary' = binary
            /\ keys # <<>> =>
                 binary' = binary \o <<BitOr(r1[1], r2[1]), 0>>
                             \o [i \in 1..6 |-> IF i <= Len(keys) THEN keys[i] ELSE 0]
                             \o [i \in 1..16 |-> 0]
            /\ cur = <<"G", "U", "I", " ", "r">> => binary' = binary \o <<8, 0, 21, 0, 0, 0, 0, 0>> \o Zeros(16)]_vars

ComboReport_witness ==
    /\ line_nr = 1
    /\ FirstWord(lines[1]) = <<"a", "-", "b", "-", "c", "-", "d", "-", "e", "-", "f", "-", "g">>
    /\ Remainder(lines[1]) = <<"g", "-", "h", "-", "i", "-", "j">>
    /\ binary = <<0, 0, 4, 5, 6, 7, 8, 9>> \o Zeros(16)
    /\ stdout = <<>>

\* C6: a blank line, a line whose first word is REM in any letter case and a
\* line beginning with // or # append nothing and print nothing.
CommentLine(l) ==
    \/ Trimmed(l) = <<>>
    \/ upper(FirstWord(l)) = <<"R", "E", "M">>
    \/ startswith(Trimmed(l), <<"/", "/">>)
    \/ startswith(Trimmed(l), <<"#">>)

CommentsProduceNothing ==
    [][(HasLine /\ CommentLine(cur)) => (binary' = binary /\ stdout' = stdout)]_vars

\* C7 as stated: parse_key returns the OR of the masks of the modifier tokens
\* and the codes of the key tokens in order, a key named twice appearing once.
ExpectedMask(toks) ==
    LET bit(b) == IF \E i \in DOMAIN toks : toks[i] \in DOMAIN MODIFIERS /\ MODIFIERS[toks[i]] = b
                  THEN b ELSE 0
    IN  bit(1) + bit(2) + bit(4) + bit(8)

KeyTokens(toks) ==
    SelectSeq(toks, LAMBDA p : p \in DOMAIN KEYMAP /\ p \notin DOMAIN MODIFIERS)

Codes(toks) == [i \in 1..Len(toks) |-> KEYMAP[toks[i]]]

RECURSIVE Distinct(_)
Distinct(s) ==
    IF s = <<>> THEN <<>>
    ELSE LET front == SubSeq(s, 1, Len(s) - 1)
         IN  IF s[Len(s)] \in Range(front) THEN Distinct(front)
             ELSE Append(Distinct(front), s[Len(s)])

\* the strings the compiled key-combo lines have handed to parse_key
Resolved ==
    UNION { {FirstWord(lines[i]), Remainder(lines[i])} :
              i \in {j \in 1..line_nr : GenericLine(lines[j])} }

ResolverDropsDuplicates ==
    \A s \in Resolved :
        parse_key(s) = <<ExpectedMask(key_parts(s)), Codes(Distinct(KeyTokens(key_parts(s))))>>

\* C7 amended: every token that names a key contributes its code, once per
\* occurrence and in order; only unknown tokens are dropped.
ResolverKeepsDuplicates ==
    \A s \in Resolved :
        /\ parse_key(s) = <<ExpectedMask(key_parts(s)), Codes(KeyTokens(key_parts(s)))>>
        /\ parse_key(s)[1] \in 0..15

ResolverKeepsDuplicates_witness ==
    /\ line_nr = 1
    /\ lines[1] = <<"G", "U", "I", " ", "a", "-", "z", "z", "-", "a">>
    /\ parse_key(<<"a", "-", "z", "z", "-", "a">>) = <<0, <<4, 4>>>>
    /\ binary = <<8, 0, 4, 4, 0, 0, 0, 0>> \o Zeros(16)

\* C8: a DELAY line whose argument is not a non-negative integer (a negative
\* integer, no argument, a non-number) appends nothing and prints one diagnostic
\* for that line.
RECURSIVE AllDigits(_)
AllDigits(s) == s = <<>> \/ (Head(s) \in Range(Digits) /\ AllDigits(Tail(s)))

BadDelayArg(a) ==
    \/ a = <<>>
    \/ Head(a) = "-" /\ Len(a) > 1 /\ AllDigits(Tail(a)) /\ \E i \in 2..Len(a) : a[i] # "0"
    \/ \E i \in DOMAIN a : a[i] \notin Range(Digits) \cup {"+", "-", "_"}

BadDelayFails ==
    [][(HasLine /\ upper(FirstWord(cur)) = <<"D", "E", "L", "A", "Y">> /\ BadDelayArg(Remainder(cur))) =>
        /\ binary' = binary
        /\ Len(stdout') = Len(stdout) + 1
        /\ stdout'[Len(stdout')].nr = line_nr + 1]_vars

\* C10 as stated: in a STRING line the characters !@#$%^&*()_+{}|:"<>?~ add no
\* report: the line compiles to what it compiles to with them removed, and the
\* shift bit is set for uppercase letters only.
Without(t) == SelectSeq(t, LAMBDA c : c \notin Range(<<"!", "@", "#", "$", "%", "^", "&", "*", "(", ")", "_", "+", "{", "}", "|", ":", "\"", "<", ">", "?", "~">>))

Appended == SubSeq(binary', Len(binary) + 1, Len(binary'))

ShiftOnlyUpper(t) ==
    LET n == Len(Appended) \div 8
        mods == [k \in 1..n |-> Appended[8 * k - 7]]
    IN  /\ \A k \in 1..n : mods[k] \in {0, 2}
        /\ Cardinality({k \in 1..n : mods[k] = 2})
             = Cardinality({i \in DOMAIN t : t[i] \in Range(UpperLetters)})

NoEndSpace(t) == t = <<>> \/ (t[1] # " " /\ t[Len(t)] # " ")

====
